---- MODULE Spec2Model ----
(***************************************************************************)
(* pyo3_tests/src/exp5.rs: transform_with_custom_code.                     *)
(*                                                                         *)
(* The harness joins a fixed Python prelude with the caller's custom code, *)
(* takes the interpreter lock (Python::with_gil), creates a fresh locals   *)
(* dict, runs the joined script with globals = None and that dict as       *)
(* locals, looks up "output" in the dict and prints it.  Either unwrap()   *)
(* panics on failure.                                                      *)
(*                                                                         *)
(* Script text is a sequence of tokens: a newline, an indentation run, a   *)
(* whole statement, or a malformed fragment.  The interpreter is modelled  *)
(* for the statements the scripts below use, with the name resolution of   *)
(* module-level code run with separate globals and locals: names are       *)
(* stored in locals and loaded from locals, then globals.  globals = None  *)
(* makes the globals the dict of the module __main__, which lives as long  *)
(* as the interpreter does.                                                *)
(***************************************************************************)
EXTENDS Integers, Sequences, FiniteSets, TLC

VARIABLES pc, custom_code, run_code, gil, locals, heap, compiled, ip, run_result,
          output, outcome, calls, stdout, handoffs

(* pc[t]          where caller t is in transform_with_custom_code          *)
(* custom_code[t] its argument; run_code[t] the script built from it       *)
(* gil            the thread holding the interpreter lock, or NoHolder     *)
(* locals[t]      the dict t created, while it lives; heap the dicts       *)
(* compiled[t]    the statements of the compiled script, ip[t] the next    *)
(* run_result[t]  what py.run returned: "Ok" or the Python error           *)
(* output[t]      the value get_item found                                 *)
(* outcome[t]     how the call ended: "emitted", or the panic of the       *)
(*                unwrap after py.run ("ExecutionFailure") or after        *)
(*                get_item ("MissingOutput")                               *)
(* calls[t]       the requests t made to the engine, in order              *)
(* stdout[t]      the lines t wrote to standard output, the script's       *)
(*                prints and the harness's println                         *)
(* handoffs       the times the interpreter has handed the lock over       *)
vars == <<pc, custom_code, run_code, gil, locals, heap, compiled, ip, run_result,
          output, outcome, calls, stdout, handoffs>>

(* Bounds of the model. *)
NumCallers == 2
MaxStrLen == 1
MaxHandOffs == 1

Callers == 1..NumCallers

(***************************************************************************)
(* Python values.                                                          *)
(***************************************************************************)
PyString(s) == [t |-> "str", s |-> s]
PyInt(n) == [t |-> "int", n |-> n]
PyModule(name) == [t |-> "module", name |-> name]
PyClass(name) == [t |-> "class", name |-> name]
PyInstance(cls) == [t |-> "instance", cls |-> cls]

(* str.upper() on the characters the scripts use. *)
UpperChar(c) ==
    CASE c = "a" -> "A"
      [] c = "b" -> "B"
      [] c = "h" -> "H"
      [] c = "e" -> "E"
      [] c = "l" -> "L"
      [] c = "o" -> "O"
      [] OTHER -> c

(* value.upper() left out: the argument comes back as it went in. *)
StrUpperUnchanged(s) == s

StrUpper(s) == [i \in 1..Len(s) |-> UpperChar(s[i])]

(* FieldTransformer.to_upper: return value.upper(); an int has no upper. *)
to_upper(value) ==
    IF value.t = "str"
    THEN [ok |-> TRUE, v |-> PyString(StrUpper(value.s))]
    ELSE [ok |-> FALSE, err |-> "AttributeError"]

RECURSIVE Digits(_)
Digits(n) ==
    LET d == <<"0", "1", "2", "3", "4", "5", "6", "7", "8", "9">>
    IN IF n < 10 THEN <<d[n + 1]>> ELSE Digits(n \div 10) \o <<d[(n % 10) + 1]>>

(* Display of a Python object, as println!("{}", output) formats it:       *)
(* str(obj).  The address in an object's default repr is left abstract.    *)
PyStr(value) ==
    CASE value.t = "str" -> value.s
      [] value.t = "int" -> Digits(value.n)
      [] value.t = "instance" -> <<"<__main__.", value.cls, " object>">>
      [] value.t = "class" -> <<"<class '__main__.", value.name, "'>">>
      [] OTHER -> <<"<module '", value.name, "'>">>

(***************************************************************************)
(* Script text.                                                            *)
(***************************************************************************)
NL == [op |-> "NL"]
WS == [op |-> "WS"]
Malformed == [op |-> "malformed"]

Lit(v) == [k |-> "lit", v |-> v]
Name(n) == [k |-> "name", n |-> n]
New(cls) == [k |-> "new", cls |-> cls]
ToUpper(arg) == [k |-> "to_upper", arg |-> arg]
GlobalsGet(n, d) == [k |-> "globals_get", n |-> n, d |-> d]

Import(m) == [op |-> "import", m |-> m]
ClassDef(name) == [op |-> "class", name |-> name]
Assign(target, e) == [op |-> "assign", target |-> target, e |-> e]
PrintStmt(e) == [op |-> "print", e |-> e]
GlobalsSet(n, e) == [op |-> "globals_set", n |-> n, e |-> e]

(* The prelude: two empty lines, import hashlib, the class, the binding of *)
(* field_transformer, and a last line of four spaces.                      *)
field_transformer_code ==
    << NL, NL, Import("hashlib"),
       NL, ClassDef("FieldTransformer"),
       NL, Assign("field_transformer", New("FieldTransformer")),
       NL, WS >>

format_no_newline(prelude, code) == prelude \o code

(* format!("{}\n{}", field_transformer_code, custom_code) *)
format(prelude, code) == prelude \o <<NL>> \o code

(***************************************************************************)
(* Compilation: the whole script is parsed before any of it runs.          *)
(***************************************************************************)
IsNL(tok) == tok = NL
IsCode(tok) == tok # NL /\ tok # WS

(* Positions i and j of the text are on one line. *)
SameLine(text, i, j) ==
    \A m \in 1..Len(text) : ((i <= m /\ m <= j) \/ (j <= m /\ m <= i)) => ~IsNL(text[m])

(* The token at i follows indentation that opens its line: at module *)
(* level, with no block open, an unexpected indent.                  *)
Indented(text, i) ==
    /\ IsCode(text[i])
    /\ \E j \in 1..(i - 1) :
          /\ text[j] = WS
          /\ SameLine(text, j, i)
          /\ (j = 1 \/ IsNL(text[j - 1]))

(* The token at i is no statement, or shares its line with another. *)
Invalid(text, i) ==
    /\ IsCode(text[i])
    /\ \/ text[i] = Malformed
       \/ \E j \in 1..Len(text) : j # i /\ IsCode(text[j]) /\ SameLine(text, i, j)

BadTokens(text) == {i \in 1..Len(text) : Indented(text, i) \/ Invalid(text, i)}

FirstBad(text) == CHOOSE i \in BadTokens(text) : \A j \in BadTokens(text) : i <= j

(* The script compiles to its statements in order, or the first line in *)
(* error decides the error.  Blank lines and lines of spaces are skipped.*)
Compile(text) ==
    IF BadTokens(text) # {}
    THEN [ok |-> FALSE,
          err |-> IF Indented(text, FirstBad(text)) THEN "IndentationError" ELSE "SyntaxError"]
    ELSE [ok |-> TRUE, code |-> SelectSeq(text, IsCode)]

(***************************************************************************)
(* Execution of one statement against the heap of dicts.  Dict 0 is the    *)
(* dict of __main__ (the globals when py.run is given None); lid is the    *)
(* dict passed as locals.                                                  *)
(***************************************************************************)
MainDict == 0

Bound(d, n) == n \in DOMAIN d
Store(d, n, v) == (n :> v) @@ d
HeapStore(h, id, n, v) == [h EXCEPT ![id] = Store(h[id], n, v)]

(* A name at module level: locals first, then globals. *)
Load(h, lid, n) ==
    IF Bound(h[lid], n) THEN [ok |-> TRUE, v |-> h[lid][n]]
    ELSE IF Bound(h[MainDict], n) THEN [ok |-> TRUE, v |-> h[MainDict][n]]
    ELSE [ok |-> FALSE, err |-> "NameError"]

RECURSIVE Eval(_, _, _)
Eval(e, h, lid) ==
    CASE e.k = "lit" -> [ok |-> TRUE, v |-> e.v]
      [] e.k = "name" -> Load(h, lid, e.n)
      [] e.k = "globals_get" ->
            IF Bound(h[MainDict], e.n)
            THEN [ok |-> TRUE, v |-> h[MainDict][e.n]]
            ELSE [ok |-> TRUE, v |-> e.d]
      [] e.k = "new" ->
            LET c == Load(h, lid, e.cls)
            IN IF ~c.ok THEN c
               ELSE IF c.v.t = "class" THEN [ok |-> TRUE, v |-> PyInstance(c.v.name)]
               ELSE [ok |-> FALSE, err |-> "TypeError"]
      [] OTHER ->
            LET ft == Load(h, lid, "field_transformer")
            IN IF ~ft.ok THEN ft
               ELSE IF ft.v # PyInstance("FieldTransformer")
               THEN [ok |-> FALSE, err |-> "AttributeError"]
               ELSE LET a == Eval(e.arg, h, lid)
                    IN IF ~a.ok THEN a ELSE to_upper(a.v)

Exec(stmt, h, lid) ==
    CASE stmt.op = "import" ->
            [ok |-> TRUE, heap |-> HeapStore(h, lid, stmt.m, PyModule(stmt.m)), out |-> <<>>]
      [] stmt.op = "class" ->
            [ok |-> TRUE, heap |-> HeapStore(h, lid, stmt.name, PyClass(stmt.name)), out |-> <<>>]
      [] stmt.op = "assign" ->
            LET r == Eval(stmt.e, h, lid)
            IN IF r.ok
               THEN [ok |-> TRUE, heap |-> HeapStore(h, lid, stmt.target, r.v), out |-> <<>>]
               ELSE r
      [] stmt.op = "print" ->
            LET r == Eval(stmt.e, h, lid)
            IN IF r.ok THEN [ok |-> TRUE, heap |-> h, out |-> <<PyStr(r.v)>>] ELSE r
      [] OTHER ->
            LET r == Eval(stmt.e, h, lid)
            IN IF r.ok
               THEN [ok |-> TRUE, heap |-> HeapStore(h, MainDict, stmt.n, r.v), out |-> <<>>]
               ELSE r

(***************************************************************************)
(* The dicts the harness creates and the lookup it makes.                  *)
(***************************************************************************)
PyDictNewAliased(h) == [id |-> MainDict, heap |-> h]

(* PyDict::new(py): a new, empty dict. *)
PyDictNew(h) ==
    LET id == CHOOSE i \in 1..(Cardinality(DOMAIN h) + 1) : i \notin DOMAIN h
    IN [id |-> id, heap |-> (id :> <<>>) @@ h]

(* The last reference to the dict goes when the GIL pool is dropped; the *)
(* dict of __main__ is owned by the module.                              *)
Release(h, id) ==
    IF id = MainDict THEN h ELSE [i \in (DOMAIN h) \ {id} |-> h[i]]

get_item_or_default(d, key) ==
    IF Bound(d, key) THEN [some |-> TRUE, v |-> d[key]]
    ELSE [some |-> TRUE, v |-> PyString(<<>>)]

(* PyDict::get_item: Some(value) when the key is bound, None otherwise. *)
get_item(d, key) ==
    IF Bound(d, key) THEN [some |-> TRUE, v |-> d[key]] ELSE [some |-> FALSE]

(***************************************************************************)
(* The custom code the callers pass in.                                    *)
(***************************************************************************)
Hello == <<"H", "e", "l", "l", "o">>

(* main's custom_code *)
main_custom_code ==
    << NL, PrintStmt(Name("field_transformer")),
       NL, Assign("input", Lit(PyString(Hello))),
       NL, PrintStmt(Name("input")),
       NL, Assign("output", ToUpper(Name("input"))),
       NL >>

Chars == {"a", "B"}

RECURSIVE StringsOfLen(_)
StringsOfLen(n) ==
    IF n = 0 THEN {<<>>}
    ELSE {Append(s, c) : s \in StringsOfLen(n - 1), c \in Chars}

StrLits ==
    UNION {StringsOfLen(n) : n \in 1..MaxStrLen} \cup {<<"h", "e", "l", "l", "o">>}

(* output = field_transformer.to_upper(s) *)
UpperCode(s) == <<Assign("output", ToUpper(Lit(PyString(s))))>>

(* the empty string *)
EmptyCode == <<>>
(* x = 1 *)
NoOutputCode == <<Assign("x", Lit(PyInt(1)))>>
(* output = x *)
UndefinedCode == <<Assign("output", Name("x"))>>
(* output = ( *)
MalformedCode == <<Malformed>>
(* an indented first line *)
IndentedCode == <<WS, Assign("output", Lit(PyString(<<"a">>)))>>
(* output = globals().get('n', 0) / globals()['n'] = 1 *)
CounterCode ==
    <<Assign("output", GlobalsGet("n", PyInt(0))), NL, GlobalsSet("n", Lit(PyInt(1)))>>

CustomCodes ==
    {UpperCode(s) : s \in StrLits}
        \cup {main_custom_code, EmptyCode, NoOutputCode, UndefinedCode,
              MalformedCode, IndentedCode, CounterCode}

(***************************************************************************)
(* The harness.                                                            *)
(***************************************************************************)
NoHolder == 0

Waiting(u) == pc[u] \in {"with_gil", "exec_wait"}

(* The interpreter gives the lock away between statements only when *)
(* another thread asks for it; handoffs counts the times it has.     *)
HandOff(t) ==
    IF handoffs < MaxHandOffs /\ \E u \in Callers \ {t} : Waiting(u)
    THEN {FALSE, TRUE}
    ELSE {FALSE}

unwrap_run_ignored(res) == "get_item"

unwrap_run_retried(res) == IF res = "Ok" THEN "get_item" ELSE "run"

(* py.run(..).unwrap(): on Err the closure panics. *)
unwrap_run(res) == IF res = "Ok" THEN "get_item" ELSE "unwinding"

closure_exit_gil_kept(t) == t

(* with_gil returns: the GIL guard is dropped. *)
closure_exit_gil(t) == NoHolder

unwind_gil_kept(t) == t

(* The GIL guard is dropped while the panic unwinds through with_gil. *)
unwind_gil(t) == NoHolder

Init ==
    /\ pc = [t \in Callers |-> "idle"]
    /\ custom_code = [t \in Callers |-> <<>>]
    /\ run_code = [t \in Callers |-> <<>>]
    /\ gil = NoHolder
    /\ locals = <<>>
    /\ heap = (MainDict :> <<>>)
    /\ compiled = [t \in Callers |-> <<>>]
    /\ ip = [t \in Callers |-> 0]
    /\ run_result = [t \in Callers |-> "none"]
    /\ output = <<>>
    /\ outcome = [t \in Callers |-> "none"]
    /\ calls = [t \in Callers |-> <<>>]
    /\ stdout = [t \in Callers |-> <<>>]
    /\ handoffs = 0

(* transform_with_custom_code(custom_code), up to with_gil.  The callers  *)
(* are alike and building run_code touches nothing shared, so they are   *)
(* numbered in the order in which they first take the lock.              *)
transform_with_custom_code(t, code) ==
    /\ pc[t] = "idle"
    /\ \A u \in Callers : u < t => pc[u] \notin {"idle", "with_gil"}
    /\ custom_code' = [custom_code EXCEPT ![t] = code]
    /\ run_code' = [run_code EXCEPT ![t] = format(field_transformer_code, code)]
    /\ pc' = [pc EXCEPT ![t] = "with_gil"]
    /\ UNCHANGED <<gil, locals, heap, compiled, ip, run_result, output, outcome, calls,
                   stdout, handoffs>>

(* Python::with_gil: blocks until the lock is free *)
with_gil(t) ==
    /\ pc[t] = "with_gil"
    /\ gil = NoHolder
    /\ gil' = t
    /\ pc' = [pc EXCEPT ![t] = "new_dict"]
    /\ UNCHANGED <<custom_code, run_code, locals, heap, compiled, ip, run_result, output,
                   outcome, calls, stdout, handoffs>>

(* let locals = PyDict::new(py) *)
new_locals(t) ==
    /\ pc[t] = "new_dict"
    /\ gil = t
    /\ LET d == PyDictNew(heap)
       IN /\ locals' = (t :> d.id) @@ locals
          /\ heap' = d.heap
    /\ pc' = [pc EXCEPT ![t] = "run"]
    /\ UNCHANGED <<custom_code, run_code, gil, compiled, ip, run_result, output, outcome,
                   calls, stdout, handoffs>>

(* py.run(..).unwrap() once py.run has returned res; "running" while the *)
(* script has statements left.                                           *)
RunReturns(t, res) ==
    /\ run_result' = [run_result EXCEPT ![t] = IF res = "running" THEN @ ELSE res]
    /\ outcome' = [outcome EXCEPT ![t] =
                      IF res # "running" /\ unwrap_run(res) = "unwinding"
                      THEN "ExecutionFailure"
                      ELSE @]

(* py.run(&run_code, None, Some(locals)): the script is compiled, or *)
(* does not compile and py.run returns the error                     *)
py_run(t) ==
    /\ pc[t] = "run"
    /\ gil = t
    /\ calls' = [calls EXCEPT ![t] = Append(@, "run")]
    /\ LET c == Compile(run_code[t])
           res == IF ~c.ok THEN c.err ELSE IF c.code = <<>> THEN "Ok" ELSE "running"
       IN /\ RunReturns(t, res)
          /\ compiled' = [compiled EXCEPT ![t] = IF c.ok THEN c.code ELSE @]
          /\ ip' = [ip EXCEPT ![t] = IF res = "running" THEN 1 ELSE @]
          /\ pc' = [pc EXCEPT ![t] = IF res = "running" THEN "exec" ELSE unwrap_run(res)]
    /\ UNCHANGED <<custom_code, run_code, gil, locals, heap, output, stdout, handoffs>>

(* py.run, continued: the next statement of the script is executed *)
exec_stmt(t) ==
    /\ pc[t] = "exec"
    /\ gil = t
    /\ \E h \in HandOff(t) :
          LET r == Exec(compiled[t][ip[t]], heap, locals[t])
              res == IF ~r.ok THEN r.err
                     ELSE IF ip[t] = Len(compiled[t]) THEN "Ok"
                     ELSE "running"
          IN /\ h => res = "running"
             /\ RunReturns(t, res)
             /\ heap' = IF r.ok THEN r.heap ELSE heap
             /\ stdout' = [stdout EXCEPT ![t] = IF r.ok THEN @ \o r.out ELSE @]
             /\ ip' = [ip EXCEPT ![t] = IF res = "running" THEN @ + 1 ELSE @]
             /\ gil' = IF h THEN NoHolder ELSE t
             /\ handoffs' = IF h THEN handoffs + 1 ELSE handoffs
             /\ pc' = [pc EXCEPT ![t] =
                          IF res # "running" THEN unwrap_run(res)
                          ELSE IF h THEN "exec_wait"
                          ELSE "exec"]
    /\ UNCHANGED <<custom_code, run_code, locals, compiled, output, calls>>

(* py.run, continued: the interpreter takes the lock back *)
exec_resume(t) ==
    /\ pc[t] = "exec_wait"
    /\ gil = NoHolder
    /\ gil' = t
    /\ pc' = [pc EXCEPT ![t] = "exec"]
    /\ UNCHANGED <<custom_code, run_code, locals, heap, compiled, ip, run_result, output,
                   outcome, calls, stdout, handoffs>>

(* let output = locals.get_item("output").unwrap() *)
lookup_output(t) ==
    /\ pc[t] = "get_item"
    /\ gil = t
    /\ calls' = [calls EXCEPT ![t] = Append(@, "get_item")]
    /\ LET r == get_item(heap[locals[t]], "output")
       IN IF r.some
          THEN /\ output' = (t :> r.v) @@ output
               /\ pc' = [pc EXCEPT ![t] = "println"]
               /\ UNCHANGED outcome
          ELSE /\ outcome' = [outcome EXCEPT ![t] = "MissingOutput"]
               /\ pc' = [pc EXCEPT ![t] = "unwinding"]
               /\ UNCHANGED output
    /\ UNCHANGED <<custom_code, run_code, gil, locals, heap, compiled, ip, run_result,
                   stdout, handoffs>>

(* println!("{}", output) *)
println(t) ==
    /\ pc[t] = "println"
    /\ gil = t
    /\ stdout' = [stdout EXCEPT ![t] = Append(@, PyStr(output[t]))]
    /\ outcome' = [outcome EXCEPT ![t] = "emitted"]
    /\ pc' = [pc EXCEPT ![t] = "exit"]
    /\ UNCHANGED <<custom_code, run_code, gil, locals, heap, compiled, ip, run_result,
                   output, calls, handoffs>>

(* the closure returns: locals goes and the lock is released *)
exit_gil(t) ==
    /\ pc[t] = "exit"
    /\ gil = t
    /\ heap' = Release(heap, locals[t])
    /\ locals' = [u \in (DOMAIN locals) \ {t} |-> locals[u]]
    /\ gil' = closure_exit_gil(t)
    /\ pc' = [pc EXCEPT ![t] = "returned"]
    /\ UNCHANGED <<custom_code, run_code, compiled, ip, run_result, output, outcome, calls, stdout,
                   handoffs>>

(* an unwrap() panicked: the stack unwinds through the closure.  The    *)
(* panic ends this caller; callers on other threads go on.             *)
unwind(t) ==
    /\ pc[t] = "unwinding"
    /\ heap' = Release(heap, locals[t])
    /\ locals' = [u \in (DOMAIN locals) \ {t} |-> locals[u]]
    /\ gil' = unwind_gil(t)
    /\ pc' = [pc EXCEPT ![t] = "panicked"]
    /\ UNCHANGED <<custom_code, run_code, compiled, ip, run_result, output, outcome, calls, stdout,
                   handoffs>>

Step(t) ==
    \/ with_gil(t)
    \/ new_locals(t)
    \/ py_run(t)
    \/ exec_stmt(t)
    \/ lookup_output(t)
    \/ println(t)
    \/ exit_gil(t)
    \/ unwind(t)

Call(t) == \E code \in CustomCodes : transform_with_custom_code(t, code)

Next == \E t \in Callers : Call(t) \/ Step(t) \/ exec_resume(t)

(* Callers on threads of one process, in any interleaving. *)
Spec == Init /\ [][Next]_vars

Finished(u) == pc[u] \in {"returned", "panicked"}

(* One invocation at a time: a call is made only when no other is under way. *)
Alone(t) == \A u \in Callers \ {t} : pc[u] = "idle" \/ Finished(u)

SeqNext ==
    \E t \in Callers :
        \/ Alone(t) /\ Call(t)
        \/ Alone(t) /\ with_gil(t)
        \/ Alone(t) /\ new_locals(t)
        \/ Alone(t) /\ py_run(t)
        \/ Alone(t) /\ exec_stmt(t)
        \/ Alone(t) /\ lookup_output(t)
        \/ Alone(t) /\ println(t)
        \/ Alone(t) /\ exit_gil(t)
        \/ Alone(t) /\ unwind(t)

(* Calls made one after another, as main makes its one. *)
SeqSpec == Init /\ [][SeqNext]_vars

(* A call that was made goes on running; a caller need not call. *)
FairSeqSpec == SeqSpec /\ \A t \in Callers : WF_vars(Step(t))

(***************************************************************************)
(* Properties.                                                             *)
(***************************************************************************)
Called(t) == pc[t] # "idle"
Panicked(t) == pc[t] \in {"unwinding", "panicked"}
Printed(t) == pc[t] \in {"exit", "returned"}
RunFailed(t) == run_result[t] \notin {"none", "Ok"}

(* What upper-casing is to give, stated apart from the script's own code. *)
UpperCased(s) == [i \in 1..Len(s) |-> UpperChar(s[i])]
HELLO == <<"H", "E", "L", "L", "O">>

(* C1: for every non-empty string s, custom code that assigns            *)
(* output = field_transformer.to_upper(s) never fails, binds output to   *)
(* the upper-cased s, and the harness prints exactly that ('hello' gives *)
(* 'HELLO'; main's own script prints HELLO last).                        *)
C1_UpperCasedOutputEmitted ==
    \A t \in Callers :
        /\ \A s \in StrLits :
              custom_code[t] = UpperCode(s) =>
                  /\ ~Panicked(t)
                  /\ pc[t] \in {"println", "exit", "returned"} =>
                         t \in DOMAIN output /\ output[t] = PyString(UpperCased(s))
                  /\ Printed(t) => outcome[t] = "emitted" /\ stdout[t] = <<UpperCased(s)>>
        /\ custom_code[t] = UpperCode(<<"h", "e", "l", "l", "o">>) /\ Printed(t) =>
              stdout[t] = <<HELLO>>
        /\ custom_code[t] = main_custom_code /\ Printed(t) =>
              Len(stdout[t]) = 3 /\ stdout[t][2] = Hello /\ stdout[t][3] = HELLO

C1_Witness ==
    \E t \in Callers :
        /\ custom_code[t] = UpperCode(<<"h", "e", "l", "l", "o">>)
        /\ pc[t] = "returned"
        /\ stdout[t] = <<HELLO>>

AssignsOutput(text) ==
    \E i \in 1..Len(text) : text[i].op = "assign" /\ text[i].target = "output"

(* C2: when the script ran to the end and no statement of it assigns     *)
(* output, the lookup fails: the invocation panics with MissingOutput    *)
(* and the harness prints nothing, no empty or default value either.     *)
C2_MissingOutputNotDefaulted ==
    \A t \in Callers :
        (run_result[t] = "Ok" /\ ~AssignsOutput(run_code[t])) =>
            /\ pc[t] \in {"get_item", "unwinding", "panicked"}
            /\ pc[t] # "get_item" => outcome[t] = "MissingOutput"
            /\ t \notin DOMAIN output
            /\ stdout[t] = <<>>

C2_Witness ==
    \E t \in Callers :
        /\ custom_code[t] = NoOutputCode
        /\ pc[t] = "panicked"
        /\ outcome[t] = "MissingOutput"
        /\ calls[t] = <<"run", "get_item">>

(* C3: a script that does not compile or raises ends the invocation with *)
(* ExecutionFailure at the execute step, before any lookup; MissingOutput*)
(* comes only from a lookup after a successful run, so no invocation has *)
(* both and the two outcomes differ.                                     *)
C3_ExecutionFailureDistinct ==
    \A t \in Callers :
        /\ RunFailed(t) =>
              Panicked(t) /\ outcome[t] = "ExecutionFailure" /\ calls[t] = <<"run">>
        /\ outcome[t] = "ExecutionFailure" => RunFailed(t)
        /\ outcome[t] = "MissingOutput" =>
              run_result[t] = "Ok" /\ calls[t] = <<"run", "get_item">>
        /\ (Finished(t) /\ ~Compile(run_code[t]).ok) => outcome[t] = "ExecutionFailure"
        /\ (custom_code[t] \in {MalformedCode, IndentedCode}
                /\ pc[t] \notin {"idle", "with_gil", "new_dict", "run"}) =>
              /\ outcome[t] = "ExecutionFailure"
              /\ run_result[t] \in {"SyntaxError", "IndentationError"}
        /\ (custom_code[t] = UndefinedCode /\ Finished(t)) =>
              outcome[t] = "ExecutionFailure" /\ run_result[t] = "NameError"

C3_Witness ==
    \E t, u \in Callers :
        /\ pc[t] = "panicked" /\ outcome[t] = "ExecutionFailure"
        /\ run_result[t] = "SyntaxError"
        /\ pc[u] = "panicked" /\ outcome[u] = "MissingOutput"

(* C4: when an invocation starts to run its script after the invocations *)
(* before it have ended, no name is bound in the scope the script sees:  *)
(* neither in its locals nor in the globals (the dict of __main__).      *)
C4_NoBindingSurvives ==
    \A t \in Callers :
        (pc[t] = "run" /\ Alone(t)) =>
            DOMAIN heap[locals[t]] = {} /\ DOMAIN heap[MainDict] = {}

(* C5: two ended invocations with the same custom_code have the same     *)
(* outcome and printed the same.                                         *)
C5_SameCodeSameResult ==
    \A t, u \in Callers :
        (Finished(t) /\ Finished(u) /\ custom_code[t] = custom_code[u]) =>
            outcome[t] = outcome[u] /\ stdout[t] = stdout[u]

OwnOutputs(code) ==
    IF code = main_custom_code THEN {PyString(HELLO)}
    ELSE IF code = CounterCode THEN {PyInt(0), PyInt(1)}
    ELSE {PyString(UpperCased(s)) : s \in {x \in StrLits : code = UpperCode(x)}}

NumPreludeStmts == Len(Compile(field_transformer_code).code)

(* C8: run_code is the prelude, one newline, custom_code, in that order; *)
(* the prelude is the same text in every invocation; and when the first  *)
(* statement of custom_code runs, field_transformer is already bound to  *)
(* the FieldTransformer object.                                          *)
C8_PreludeNewlineCustom ==
    \A t \in Callers :
        Called(t) =>
            /\ run_code[t] = field_transformer_code \o <<NL>> \o custom_code[t]
            /\ SubSeq(run_code[t], 1, Len(field_transformer_code)) = field_transformer_code
            /\ (pc[t] \in {"exec", "exec_wait"} /\ ip[t] > NumPreludeStmts) =>
                   /\ Bound(heap[locals[t]], "field_transformer")
                   /\ heap[locals[t]]["field_transformer"] = PyInstance("FieldTransformer")

C8_Witness ==
    \E t \in Callers :
        /\ custom_code[t] = main_custom_code
        /\ pc[t] = "exec"
        /\ ip[t] = NumPreludeStmts + 1

(* C9: an invocation asks the engine to run the script once and never    *)
(* again; the lookup is made only after that run succeeded; after an     *)
(* ExecutionFailure there is no lookup and nothing is printed.           *)
C9_OneExecuteNoRetry ==
    \A t \in Callers :
        /\ calls[t] \in {<<>>, <<"run">>, <<"run", "get_item">>}
        /\ pc[t] \notin {"idle", "with_gil", "new_dict", "run"} => Len(calls[t]) >= 1
        /\ Len(calls[t]) = 2 => run_result[t] = "Ok"
        /\ pc[t] \in {"println", "exit", "returned"} => calls[t] = <<"run", "get_item">>
        /\ outcome[t] = "ExecutionFailure" =>
              calls[t] = <<"run">> /\ t \notin DOMAIN output /\ stdout[t] = <<>>

C9_Witness ==
    \E t \in Callers :
        /\ pc[t] = "panicked"
        /\ outcome[t] = "ExecutionFailure"
        /\ run_result[t] = "NameError"
        /\ calls[t] = <<"run">>

IsPrint(stmt) == stmt.op = "print"
NumPrints(text) == Len(SelectSeq(text, IsPrint))

Outcomes == {"emitted", "ExecutionFailure", "MissingOutput"}

C10_OneOutcome ==
    \A t \in Callers :
        /\ outcome[t] \in Outcomes \cup {"none"}
        /\ Finished(t) =>
              /\ outcome[t] \in Outcomes
              /\ outcome[t] = "emitted" <=> (run_result[t] = "Ok" /\ t \in DOMAIN output)
              /\ outcome[t] = "ExecutionFailure" <=> RunFailed(t)
              /\ outcome[t] = "MissingOutput" <=> (run_result[t] = "Ok" /\ t \notin DOMAIN output)
              /\ outcome[t] = "emitted" <=> pc[t] = "returned"
              /\ Len(stdout[t]) <= NumPrints(custom_code[t]) + 1
              /\ outcome[t] = "emitted" <=> Len(stdout[t]) = NumPrints(custom_code[t]) + 1

====
